---- MODULE Spec2Model ----
(***************************************************************************)
(* A model of the two tools of the repository:                             *)
(*   tools/select_top10.py      ranks a backlog of issue records and keeps *)
(*                              the top N (SpecRank);                      *)
(*   tools/gh_pr_automation.py  drives a fixed sequence of GitHub REST     *)
(*                              calls (SpecGh).                            *)
(* Python strings are sequences of one-character strings, so that upper(), *)
(* lower(), startswith() and split() are computed character by character.  *)
(* A Python value is a record [t, v]: t is its type tag and v its          *)
(* characters when it is a str.                                            *)
(***************************************************************************)
EXTENDS Integers, Sequences, FiniteSets, TLC

VARIABLES
    fs,        \* select_top10: path -> parsed content of the file at that path
    call,      \* select_top10: the arguments of the latest invocation
    outcome,   \* select_top10: how the latest invocation ended
    stdout,    \* select_top10: what the latest invocation printed on stdout
    stderr,    \* select_top10: its diagnostic on the error stream
    madeDirs,  \* select_top10: targets whose parent directory main() ensured
    gpc,       \* gh_pr_automation: position of main()
    token,     \* gh_pr_automation: whether TOKEN is set
    log,       \* gh_pr_automation: the requests issued, with their responses
    printed,   \* gh_pr_automation: whether pr_url was printed
    issueNo,   \* gh_pr_automation: whether issue_number is set (truthy)
    exitCode,  \* gh_pr_automation: process exit status, -1 while running
    raised     \* gh_pr_automation: what ended the run early ("" when nothing)

rankVars == <<fs, call, outcome, stdout, stderr, madeDirs>>
ghVars == <<gpc, token, log, printed, issueNo, exitCode, raised>>
vars == <<fs, call, outcome, stdout, stderr, madeDirs,
          gpc, token, log, printed, issueNo, exitCode, raised>>

(***************************************************************************)
(* Bounds of the model.                                                    *)
(***************************************************************************)
MaxLen == 2      \* every backlog of at most this many records is an input
MaxExtra == 1    \* the longest backlog holds DEFAULT_LIMIT + MaxExtra records

(***************************************************************************)
(* Python strings.                                                         *)
(***************************************************************************)
Lowers == <<"a","b","c","d","e","f","g","h","i","j","k","l","m",
            "n","o","p","q","r","s","t","u","v","w","x","y","z">>
Uppers == <<"A","B","C","D","E","F","G","H","I","J","K","L","M",
            "N","O","P","Q","R","S","T","U","V","W","X","Y","Z">>

Others == <<":", "1", "2", "3">>
Chars == {Lowers[i] : i \in DOMAIN Lowers} \cup {Uppers[i] : i \in DOMAIN Uppers}
         \cup {Others[i] : i \in DOMAIN Others}

UpperOf ==
    [c \in Chars |->
        IF \E i \in DOMAIN Lowers : Lowers[i] = c
        THEN Uppers[CHOOSE i \in DOMAIN Lowers : Lowers[i] = c]
        ELSE c]

LowerOf ==
    [c \in Chars |->
        IF \E i \in DOMAIN Uppers : Uppers[i] = c
        THEN Lowers[CHOOSE i \in DOMAIN Uppers : Uppers[i] = c]
        ELSE c]

UpperChar(c) == UpperOf[c]

LowerChar(c) == LowerOf[c]

\* str.upper()
Upper(s) == [i \in DOMAIN s |-> UpperChar(s[i])]

\* str.lower()
Lower(s) == [i \in DOMAIN s |-> LowerChar(s[i])]

\* str.startswith(prefix)
StartsWith(s, prefix) ==
    /\ Len(s) >= Len(prefix)
    /\ SubSeq(s, 1, Len(prefix)) = prefix

\* label.split(":", 1)[1]: everything after the first colon
SplitColon1(s) ==
    LET k == CHOOSE i \in DOMAIN s :
                 s[i] = ":" /\ \A j \in 1..(i - 1) : s[j] # ":"
    IN SubSeq(s, k + 1, Len(s))

(***************************************************************************)
(* Python values.                                                          *)
(***************************************************************************)
Str(s) == [t |-> "str", v |-> s]
None == [t |-> "none", v |-> <<>>]
NonStr == [t |-> "int", v |-> <<>>]       \* some non-string scalar
List(xs) == [t |-> "list", v |-> xs]
IsStr(x) == x.t = "str"

(***************************************************************************)
(* Module constants of select_top10.py.                                    *)
(***************************************************************************)
DEFAULT_PRIORITY == <<"P","3">>
DEFAULT_IMPACT == <<"L","o","w">>
DEFAULT_ESTIMATE == <<"M">>
DEFAULT_LIMIT == 10

\* PRIORITY_ORDER.get(key, default)
PRIORITY_ORDER(key, default) ==
    CASE key = <<"P","1">> -> 3
      [] key = <<"P","2">> -> 2
      [] key = <<"P","3">> -> 1
      [] OTHER -> default

\* IMPACT_ORDER.get(key, default)
IMPACT_ORDER(key, default) ==
    CASE key = <<"H","I","G","H">> -> 3
      [] key = <<"M","E","D","I","U","M">> -> 2
      [] key = <<"L","O","W">> -> 1
      [] OTHER -> default

\* ESTIMATE_ORDER.get(key, default)
ESTIMATE_ORDER(key, default) ==
    CASE key = <<"X","S">> -> 1
      [] key = <<"S">> -> 2
      [] key = <<"M">> -> 3
      [] key = <<"L">> -> 4
      [] key = <<"X","L">> -> 5
      [] OTHER -> default

PriorityPrefix == <<"p","r","i","o","r","i","t","y",":">>
ImpactPrefix == <<"i","m","p","a","c","t",":">>

\* issue.get("labels", []) or []
LabelsOf(issue) == IF issue.labels.t = "list" THEN issue.labels.v ELSE <<>>

\* A scan that tests the label itself, not its lower-cased form
RECURSIVE ScanLabels_CaseSensitive(_, _, _, _)
ScanLabels_CaseSensitive(labels, k, prefix, default) ==
    IF k > Len(labels) THEN default
    ELSE IF ~IsStr(labels[k])
         THEN ScanLabels_CaseSensitive(labels, k + 1, prefix, default)
    ELSE IF StartsWith(labels[k].v, prefix)
         THEN Upper(SplitColon1(labels[k].v))
    ELSE ScanLabels_CaseSensitive(labels, k + 1, prefix, default)

\* The for loop of _normalise_priority / _normalise_impact from label k on:
\* the first str label whose lower() starts with the prefix gives the
\* upper-cased text after its first colon; none gives the default.
RECURSIVE ScanLabels(_, _, _, _)
ScanLabels(labels, k, prefix, default) ==
    IF k > Len(labels) THEN default
    ELSE IF ~IsStr(labels[k]) THEN ScanLabels(labels, k + 1, prefix, default)
    ELSE IF StartsWith(Lower(labels[k].v), prefix)
         THEN Upper(SplitColon1(labels[k].v))
    ELSE ScanLabels(labels, k + 1, prefix, default)

_normalise_priority(issue) ==
    IF IsStr(issue.priority) THEN Upper(issue.priority.v)
    ELSE ScanLabels(LabelsOf(issue), 1, PriorityPrefix, DEFAULT_PRIORITY)

_normalise_impact(issue) ==
    IF IsStr(issue.impact) THEN Upper(issue.impact.v)
    ELSE ScanLabels(LabelsOf(issue), 1, ImpactPrefix, Upper(DEFAULT_IMPACT))

_normalise_estimate(issue) ==
    IF IsStr(issue.estimate) THEN Upper(issue.estimate.v)
    ELSE DEFAULT_ESTIMATE

priority_score(issue) ==
    PRIORITY_ORDER(_normalise_priority(issue),
                   PRIORITY_ORDER(DEFAULT_PRIORITY, 0))

impact_score(issue) ==
    IMPACT_ORDER(_normalise_impact(issue),
                 IMPACT_ORDER(Upper(DEFAULT_IMPACT), 0))

estimate_score(issue) ==
    ESTIMATE_ORDER(_normalise_estimate(issue),
                   ESTIMATE_ORDER(DEFAULT_ESTIMATE, 0))

\* A key whose priority score is not negated: lowest priority first
_sort_key_AscendingPriority(issue, index) ==
    <<priority_score(issue), 0 - impact_score(issue),
      estimate_score(issue), index>>

\* A key whose tie-break is negated like the scores: latest record first
_sort_key_NegatedIndex(issue, index) ==
    <<0 - priority_score(issue), 0 - impact_score(issue),
      estimate_score(issue), 0 - index>>

\* index is the 0-based position enumerate() gives
_sort_key(issue, index) ==
    <<0 - priority_score(issue), 0 - impact_score(issue),
      estimate_score(issue), index>>

\* Python's < on tuples of four integers
TupleLess(a, b) ==
    \E k \in 1..4 : a[k] < b[k] /\ \A j \in 1..(k - 1) : a[j] = b[j]

\* A sort with reverse=True over negated scores: the index, the last
\* component of the key, then counts backwards
SortedIssues_Reverse(issues) ==
    LET n == Len(issues)
        key == SubSeq([i \in 1..n |->
                         <<0 - priority_score(issues[i]),
                           0 - impact_score(issues[i]),
                           estimate_score(issues[i]), 0 - i>>], 1, n)
        rank == SubSeq([i \in 1..n |->
                          Cardinality({j \in 1..n : TupleLess(key[j], key[i])})],
                       1, n)
    IN [p \in 1..n |-> issues[CHOOSE i \in 1..n : rank[i] = p - 1]]

\* sorted(enumerate(issues), key=...), then the issues only: sorted() is
\* stable, so an item goes after those with a smaller key and after the
\* earlier items with an equal key.
SortedIssues(issues) ==
    LET n == Len(issues)
        \* SubSeq makes TLC compute each tuple once, not at each use
        key == SubSeq([i \in 1..n |-> _sort_key(issues[i], i - 1)], 1, n)
        before(j, i) == \/ TupleLess(key[j], key[i])
                        \/ key[j] = key[i] /\ j < i
        rank == SubSeq([i \in 1..n |->
                           Cardinality({j \in 1..n : before(j, i)})], 1, n)
    IN [p \in 1..n |-> issues[CHOOSE i \in 1..n : rank[i] = p - 1]]

\* A slice that keeps one record too many
SliceTo_OneMore(s, limit) ==
    SubSeq(s, 1, IF limit + 1 < Len(s) THEN limit + 1 ELSE Len(s))

\* s[:limit]
SliceTo(s, limit) ==
    IF limit >= 0
    THEN SubSeq(s, 1, IF limit < Len(s) THEN limit ELSE Len(s))
    ELSE SubSeq(s, 1, IF Len(s) + limit > 0 THEN Len(s) + limit ELSE 0)

(***************************************************************************)
(* Files and documents of select_top10.                                    *)
(* The content of a path is what yaml.safe_load makes of it: kind is       *)
(*   "missing"     no file at the path                                     *)
(*   "notmapping"  the document is not a mapping                           *)
(*   "nokey"       a mapping without the key 'issues'                      *)
(*   "notlist"     a mapping whose 'issues' is not a list                  *)
(*   "ok"          a mapping whose 'issues' is the list issues             *)
(***************************************************************************)
Doc(kind, issues) == [kind |-> kind, issues |-> issues]
Missing == Doc("missing", <<>>)
Malformed == {Doc("notmapping", <<>>), Doc("nokey", <<>>), Doc("notlist", <<>>)}

\* The attribute profiles the backlogs are built from.
Profile(priority, impact, estimate, labels) ==
    [priority |-> priority, impact |-> impact, estimate |-> estimate,
     labels |-> labels]

Profiles == <<
    \* no field, no labels: the defaults
    Profile(None, None, None, None),
    \* direct fields in lower or mixed case
    Profile(Str(<<"p","1">>), Str(<<"H","i","g","h">>), Str(<<"x","s">>), None),
    \* impact from a label; non-string estimate beside an estimate label
    Profile(Str(<<"P","2">>), None, NonStr,
            List(<<Str(<<"e","s","t","i","m","a","t","e",":","X","S">>),
                   Str(ImpactPrefix \o <<"m","e","d","i","u","m">>)>>)),
    \* direct priority and impact outside the enumerations, beside labels
    \* inside them
    Profile(Str(<<"u","r","g","e","n","t">>), Str(<<"x">>), Str(<<"s">>),
            List(<<Str(PriorityPrefix \o <<"P","1">>),
                   Str(ImpactPrefix \o <<"h","i","g","h">>)>>)),
    \* priority from the first matching label, after a non-string label and
    \* a label without the prefix; an impact label with a second colon
    Profile(None, None, Str(<<"X","L">>),
            List(<<NonStr, Str(<<"b","u","g">>),
                   Str(PriorityPrefix \o <<"P","1">>),
                   Str(PriorityPrefix \o <<"P","2">>),
                   Str(ImpactPrefix \o <<"h","i","g","h",":","x">>)>>)),
    \* non-string direct field, labels in mixed case, an estimate outside
    \* the enumeration
    Profile(NonStr, None, Str(<<"h","u","g","e">>),
            List(<<Str(<<"P","r","i","o","r","i","t","y",":","p","2">>),
                   Str(ImpactPrefix \o <<"h","i","g","h">>)>>))
>>

NProfiles == Len(Profiles)

\* The record at position i of a backlog: profile k and the extra field id
Issue(i, k) ==
    [id |-> i, priority |-> Profiles[k].priority, impact |-> Profiles[k].impact,
     estimate |-> Profiles[k].estimate, labels |-> Profiles[k].labels]

ShortBacklogs ==
    UNION {{[i \in 1..n |-> Issue(i, ks[i])] : ks \in [1..n -> 1..NProfiles]}
           : n \in 0..MaxLen}

\* Longer backlogs, some of them longer than the default limit: the profile
\* of record i follows one of three patterns
PatternProfile(pattern, i) ==
    CASE pattern = 1 -> (i % NProfiles) + 1
      [] pattern = 2 -> NProfiles - (i % NProfiles)
      [] OTHER -> ((i * i) % NProfiles) + 1

LongLens == {MaxLen + 2} \cup (DEFAULT_LIMIT + 1)..(DEFAULT_LIMIT + MaxExtra)

LongBacklogs ==
    {[i \in 1..n |-> Issue(i, PatternProfile(pattern, i))] :
        n \in LongLens, pattern \in 1..3}

InputDocs ==
    {Missing} \cup Malformed
    \cup {Doc("ok", b) : b \in ShortBacklogs \cup LongBacklogs}

\* What may already be at the output path
StaleDoc == Doc("ok", <<Issue(1, 1)>>)

InPath == "in.yaml"
OutPath == "out.yaml"
Paths == {InPath, OutPath}
Prog == "tools/select_top10.py"

\* The limits a caller of select_top_issues passes
Limits == (0 - 1)..MaxLen \cup {DEFAULT_LIMIT}

\* The (source, target) paths of the invocations: a backlog is ranked into
\* the output file, and the output file is ranked again in place
CallPaths == {<<InPath, OutPath>>, <<OutPath, OutPath>>}

\* The command lines main is given
Argvs ==
    {<<Prog>>}
    \cup {<<Prog, pq[1], pq[2]>> : pq \in CallPaths}
    \cup {<<Prog, pq[1], pq[2], "2">> : pq \in CallPaths}

\* A select_top_issues that does not test the shape of the document: what
\* is not a list of issues ranks as an empty one
select_top_issues_NoShapeTest(fsys, source, target, limit) ==
    IF fsys[source].kind = "missing"
    THEN [fs |-> fsys, raised |-> "FileNotFoundError", msg |-> ""]
    ELSE [fs |-> [fsys EXCEPT ![target] =
                     Doc("ok", SliceTo(SortedIssues(fsys[source].issues), limit))],
          raised |-> "", msg |-> ""]

(***************************************************************************)
(* select_top_issues(source, target, limit) on the files fsys: the files   *)
(* after the call, the exception it raised ("" when it returned) and the   *)
(* exception's message.                                                    *)
(***************************************************************************)
select_top_issues(fsys, source, target, limit) ==
    LET data == fsys[source]
    IN  IF data.kind = "missing"
        THEN [fs |-> fsys, raised |-> "FileNotFoundError", msg |-> ""]
        ELSE IF data.kind \in {"notmapping", "nokey"}
        THEN [fs |-> fsys, raised |-> "SystemExit",
              msg |-> "Input YAML must contain a top-level 'issues' sequence"]
        ELSE IF data.kind = "notlist"
        THEN [fs |-> fsys, raised |-> "SystemExit",
              msg |-> "'issues' must be a list"]
        ELSE [fs |-> [fsys EXCEPT ![target] =
                         Doc("ok", SliceTo(SortedIssues(data.issues), limit))],
              raised |-> "", msg |-> ""]

\* A direct call of select_top_issues by a program that imports the module
CallSelect(source, target, limit) ==
    \E r \in {select_top_issues(fs, source, target, limit)} :
        /\ call' = [op |-> "select_top_issues", argv |-> <<>>,
                    source |-> source, target |-> target, limit |-> limit]
        /\ fs' = r.fs
        /\ outcome' = IF r.raised = "" THEN "returned" ELSE r.raised
        /\ stderr' = r.msg
        /\ stdout' = ""
        /\ UNCHANGED madeDirs

\* main, lines 93-95: the usage line
MainUsage(argv) ==
    /\ call' = [op |-> "main", argv |-> argv,
                source |-> "", target |-> "", limit |-> DEFAULT_LIMIT]
    /\ stderr' = "Usage: python tools/select_top10.py <input_yaml> <output_yaml>"
    /\ outcome' = "return 1"
    /\ stdout' = ""
    /\ UNCHANGED <<fs, madeDirs>>

\* main, lines 97-108: the paths, the existence test, mkdir and the ranking
\* with the limit select_top_issues is called with
MainRank(argv, limit) ==
    LET source == argv[2]
        target == argv[3]
    IN  /\ call' = [op |-> "main", argv |-> argv,
                    source |-> source, target |-> target, limit |-> limit]
        /\ IF fs[source].kind = "missing"
           THEN /\ stderr' = "Input file not found"
                /\ outcome' = "return 1"
                /\ stdout' = ""
                /\ UNCHANGED <<fs, madeDirs>>
           ELSE \E r \in {select_top_issues(fs, source, target, limit)} :
                /\ madeDirs' = madeDirs \cup {target}
                /\ fs' = r.fs
                /\ stderr' = r.msg
                /\ outcome' = IF r.raised = "" THEN "return 0" ELSE r.raised
                /\ stdout' = IF r.raised = "" THEN "Top issues written to"
                             ELSE ""

\* A main that takes an optional limit argument
main_OptionalLimit(argv) ==
    IF Len(argv) \notin {3, 4} THEN MainUsage(argv)
    ELSE MainRank(argv, IF Len(argv) = 4 THEN 2 ELSE DEFAULT_LIMIT)

\* main(argv): select_top_issues is called without a limit, so with its
\* default
main(argv) ==
    IF Len(argv) # 3 THEN MainUsage(argv)
    ELSE MainRank(argv, DEFAULT_LIMIT)

RankIdle ==
    /\ call = [op |-> "", argv |-> <<>>, source |-> "", target |-> "",
               limit |-> 0]
    /\ outcome = ""
    /\ stdout = ""
    /\ stderr = ""
    /\ madeDirs = {}

GhIdle ==
    /\ gpc = "idle"
    /\ token = TRUE
    /\ log = <<>>
    /\ printed = FALSE
    /\ issueNo = FALSE
    /\ exitCode = 0 - 1
    /\ raised = ""

\* The input file holds any of the input documents.  The output path is
\* free, or holds an earlier output when the input is missing, malformed or
\* a long backlog.
InitRank ==
    /\ \E d \in InputDocs, o \in {Missing, StaleDoc} :
           /\ o = StaleDoc => (d.kind # "ok" \/ Len(d.issues) > MaxLen)
           /\ fs = [p \in Paths |-> IF p = InPath THEN d ELSE o]
    /\ RankIdle
    /\ GhIdle

RunMain == \E argv \in Argvs : main(argv) /\ UNCHANGED ghVars

RunSelect ==
    \E pq \in CallPaths, limit \in Limits :
        CallSelect(pq[1], pq[2], limit) /\ UNCHANGED ghVars

NextRank == RunMain \/ RunSelect

SpecRank == InitRank /\ [][NextRank]_vars

(***************************************************************************)
(* gh_pr_automation.py.  main() is a straight line of requests; each       *)
(* action below is one numbered step of it: the request, the response the  *)
(* API gives, and what main does with it.                                  *)
(***************************************************************************)
\* What gh() returns: (code, body).  The body is "json" for the document
\* the endpoint returns on success, or an error document.
Codes == {200, 201, 404, 422}
RefExists == "Reference already exists"
Bodies == {"json", RefExists, "Not Found"}
Responses == {[code |-> c, body |-> b] : c \in Codes, b \in Bodies}

\* urlopen raised something else than HTTPError, which gh() does not catch
URLError == [code |-> 0, body |-> "URLError"]

\* The bodies of GET /search/issues: items with a title holding WEB-01,
\* items without, no items
SearchBodies == {"items:WEB-01", "items:other", "items:none", "Not Found"}
SearchResponses == {[code |-> c, body |-> b] : c \in {200, 422}, b \in SearchBodies}

Logged(req, resp) == Append(log, [req |-> req, code |-> resp.code, body |-> resp.body])

\* sys.exit(1), or an exception nothing catches: the process ends with
\* status 1 either way
Exit1(why) ==
    /\ gpc' = "exited"
    /\ exitCode' = 1
    /\ raised' = why

Goto(next) ==
    /\ gpc' = next
    /\ UNCHANGED <<exitCode, raised>>

\* 1) resolve base sha.  The first call of gh() is where a missing TOKEN
\* raises SystemExit, before any request.
ResolveBase ==
    /\ gpc = "resolve_base"
    /\ UNCHANGED <<token, printed, issueNo>>
    /\ IF ~token
       THEN Exit1("SystemExit: GH_TOKEN is required") /\ UNCHANGED log
       ELSE \E resp \in Responses \cup {URLError} :
               /\ log' = Logged("resolve_base", resp)
               /\ IF resp = URLError THEN Exit1("URLError")
                  ELSE IF resp.code # 200 THEN Exit1("Failed to resolve base ref")
                  ELSE IF resp.body # "json" THEN Exit1("KeyError")
                  ELSE Goto("create_ref")

\* A step 2 that passes on every failure
CreateRefFailed_Never(resp) == FALSE

\* code not in (200, 201) at step 2, with the tolerated failure
CreateRefFailed(resp) ==
    resp.code \notin {200, 201} /\ resp.body # RefExists

\* 2) ensure branch ref exists (from base)
CreateRef ==
    /\ gpc = "create_ref"
    /\ UNCHANGED <<token, printed, issueNo>>
    /\ \E resp \in Responses \cup {URLError} :
           /\ log' = Logged("create_ref", resp)
           /\ IF resp = URLError THEN Exit1("URLError")
              ELSE IF CreateRefFailed(resp) THEN Exit1("Create ref failed")
              ELSE Goto("create_tree")

\* 3) create tree with our files
CreateTree ==
    /\ gpc = "create_tree"
    /\ UNCHANGED <<token, printed, issueNo>>
    /\ \E resp \in Responses \cup {URLError} :
           /\ log' = Logged("create_tree", resp)
           /\ IF resp = URLError THEN Exit1("URLError")
              ELSE IF resp.code \notin {200, 201} THEN Exit1("Create tree failed")
              ELSE IF resp.body # "json" THEN Exit1("KeyError")
              ELSE Goto("create_commit")

\* 4) create commit
CreateCommit ==
    /\ gpc = "create_commit"
    /\ UNCHANGED <<token, printed, issueNo>>
    /\ \E resp \in Responses \cup {URLError} :
           /\ log' = Logged("create_commit", resp)
           /\ IF resp = URLError THEN Exit1("URLError")
              ELSE IF resp.code \notin {200, 201} THEN Exit1("Create commit failed")
              ELSE IF resp.body # "json" THEN Exit1("KeyError")
              ELSE Goto("update_ref")

\* The test of step 5, `code not in (200)`: (200) is the int 200, not a
\* tuple, so Python raises TypeError whatever the code is.
NotIn200(code) == "TypeError"

\* 5) update ref to point to our commit
UpdateRef ==
    /\ gpc = "update_ref"
    /\ UNCHANGED <<token, printed, issueNo>>
    /\ \E resp \in Responses \cup {URLError} :
           /\ log' = Logged("update_ref", resp)
           /\ IF resp = URLError THEN Exit1("URLError")
              ELSE CASE NotIn200(resp.code) = "TypeError" -> Exit1("TypeError")
                     [] NotIn200(resp.code) = "True" -> Exit1("Update ref failed")
                     [] OTHER -> Goto("create_pr")

\* 6) create PR
CreatePR ==
    /\ gpc = "create_pr"
    /\ UNCHANGED <<token, issueNo>>
    /\ \E resp \in Responses \cup {URLError} :
           /\ log' = Logged("create_pr", resp)
           /\ IF resp = URLError THEN Exit1("URLError") /\ UNCHANGED printed
              ELSE IF resp.code # 201
              THEN Exit1("Create PR failed") /\ UNCHANGED printed
              ELSE IF resp.body # "json" THEN Exit1("KeyError") /\ UNCHANGED printed
              ELSE Goto("find_issue") /\ printed' = TRUE

\* 7) find issue WEB-01: the first item with WEB-01 in its title, else the
\* first item
FindIssue ==
    /\ gpc = "find_issue"
    /\ UNCHANGED <<token, printed>>
    /\ \E resp \in SearchResponses \cup {URLError} :
           /\ log' = Logged("find_issue", resp)
           /\ IF resp = URLError THEN Exit1("URLError") /\ UNCHANGED issueNo
              ELSE IF resp.code = 200 /\ resp.body \in {"items:WEB-01", "items:other"}
              THEN Goto("get_issue") /\ issueNo' = TRUE
              ELSE Goto("request_review") /\ issueNo' = FALSE

\* 8) update issue checkboxes and comment: the GET
GetIssue ==
    /\ gpc = "get_issue"
    /\ UNCHANGED <<token, printed, issueNo>>
    /\ \E resp \in Responses \cup {URLError} :
           /\ log' = Logged("get_issue", resp)
           /\ IF resp = URLError THEN Exit1("URLError")
              ELSE IF resp.code # 200 THEN Goto("request_review")
              ELSE Goto("patch_issue")

\* 8) the PATCH; its response is not looked at
PatchIssue ==
    /\ gpc = "patch_issue"
    /\ UNCHANGED <<token, printed, issueNo>>
    /\ \E resp \in Responses \cup {URLError} :
           /\ log' = Logged("patch_issue", resp)
           /\ IF resp = URLError THEN Exit1("URLError")
              ELSE Goto("comment_issue")

\* 8) the comment; its response is not looked at
CommentIssue ==
    /\ gpc = "comment_issue"
    /\ UNCHANGED <<token, printed, issueNo>>
    /\ \E resp \in Responses \cup {URLError} :
           /\ log' = Logged("comment_issue", resp)
           /\ IF resp = URLError THEN Exit1("URLError")
              ELSE Goto("request_review")

\* 9) request review; main returns after it
RequestReview ==
    /\ gpc = "request_review"
    /\ UNCHANGED <<token, printed, issueNo>>
    /\ \E resp \in Responses \cup {URLError} :
           /\ log' = Logged("request_review", resp)
           /\ IF resp = URLError THEN Exit1("URLError")
              ELSE gpc' = "exited" /\ exitCode' = 0 /\ UNCHANGED raised

InitGh ==
    /\ fs = [p \in Paths |-> Missing]
    /\ RankIdle
    /\ gpc = "resolve_base"
    /\ token \in BOOLEAN
    /\ log = <<>>
    /\ printed = FALSE
    /\ issueNo = FALSE
    /\ exitCode = 0 - 1
    /\ raised = ""

\* Steps 1 to 5.  Step 5 always ends the run, so steps 6 to 9 are never
\* taken (StepsAfterUpdateRef) and are left out of the next-state relation.
NextGh ==
    \/ ResolveBase /\ UNCHANGED rankVars
    \/ CreateRef /\ UNCHANGED rankVars
    \/ CreateTree /\ UNCHANGED rankVars
    \/ CreateCommit /\ UNCHANGED rankVars
    \/ UpdateRef /\ UNCHANGED rankVars

StepsAfterUpdateRef ==
    \/ CreatePR
    \/ FindIssue
    \/ GetIssue
    \/ PatchIssue
    \/ CommentIssue
    \/ RequestReview

SpecGh == InitGh /\ [][NextGh]_vars

(***************************************************************************)
(* Properties of select_top10.                                             *)
(***************************************************************************)
Min(a, b) == IF a < b THEN a ELSE b

\* The latest invocation wrote its target
Wrote == outcome \in {"returned", "return 0"}

\* The records of a sequence
Range(s) == {s[i] : i \in DOMAIN s}

\* The position of a record in a backlog (ids make the records distinct)
Pos(s, x) == CHOOSE i \in DOMAIN s : s[i] = x

\* The scores as the specification tabulates them
SpecPriorityScore(p) ==
    IF p = <<"P","1">> THEN 3 ELSE IF p = <<"P","2">> THEN 2 ELSE 1

SpecImpactScore(i) ==
    IF i = <<"H","I","G","H">> THEN 3
    ELSE IF i = <<"M","E","D","I","U","M">> THEN 2 ELSE 1

SpecEstimateScore(e) ==
    IF e = <<"X","S">> THEN 1 ELSE IF e = <<"S">> THEN 2
    ELSE IF e = <<"L">> THEN 4 ELSE IF e = <<"X","L">> THEN 5 ELSE 3

PScore(issue) == SpecPriorityScore(_normalise_priority(issue))
IScore(issue) == SpecImpactScore(_normalise_impact(issue))
EScore(issue) == SpecEstimateScore(_normalise_estimate(issue))

\* C1: an invocation of select_top_issues with limit >= 0 that writes,
\* writes exactly min(limit, len(issues)) records: none for limit 0, and
\* every record of the input when the limit is at least its length.
C1_OutputLength ==
    [][(Wrote' /\ call'.limit >= 0) =>
        LET inp == fs[call'.source].issues
            out == fs'[call'.target].issues
        IN  /\ fs'[call'.target].kind = "ok"
            /\ Len(out) = Min(call'.limit, Len(inp))
            /\ call'.limit = 0 => out = <<>>
            /\ call'.limit >= Len(inp) => Range(out) = Range(inp)]_vars

\* C1 witness: a backlog was truncated to a limit below its length
C1_Witness ==
    /\ Wrote
    /\ call.source = InPath
    /\ call.limit > 0
    /\ call.limit < Len(fs[InPath].issues)
    /\ Len(fs[call.target].issues) = call.limit

\* C2: in the written list every record has a priority score >= that of
\* the next one; with equal priority scores an impact score >= it; with
\* both equal an estimate score <= it.
C2_Ordered ==
    Wrote =>
        LET out == fs[call.target].issues
        IN  \A k \in 1..(Len(out) - 1) :
                /\ PScore(out[k]) >= PScore(out[k + 1])
                /\ PScore(out[k]) = PScore(out[k + 1])
                       => IScore(out[k]) >= IScore(out[k + 1])
                /\ (PScore(out[k]) = PScore(out[k + 1])
                    /\ IScore(out[k]) = IScore(out[k + 1]))
                       => EScore(out[k]) <= EScore(out[k + 1])

\* C2 witness: an unsorted backlog was ranked, and the output holds a pair
\* decided by priority, one decided by impact and one decided by estimate
C2_Witness ==
    /\ Wrote
    /\ call.source = InPath
    /\ LET inp == fs[InPath].issues
           out == fs[call.target].issues
       IN  /\ Len(out) >= 4
           /\ out # SubSeq(inp, 1, Len(out))
           /\ \E k \in 1..(Len(out) - 1) : PScore(out[k]) > PScore(out[k + 1])
           /\ \E k \in 1..(Len(out) - 1) :
                  /\ PScore(out[k]) = PScore(out[k + 1])
                  /\ IScore(out[k]) > IScore(out[k + 1])
           /\ \E k \in 1..(Len(out) - 1) :
                  /\ PScore(out[k]) = PScore(out[k + 1])
                  /\ IScore(out[k]) = IScore(out[k + 1])
                  /\ EScore(out[k]) < EScore(out[k + 1])

SameNormalised(x, y) ==
    /\ _normalise_priority(x) = _normalise_priority(y)
    /\ _normalise_impact(x) = _normalise_impact(y)
    /\ _normalise_estimate(x) = _normalise_estimate(y)

AllDefaults(issue) ==
    /\ issue.priority = None
    /\ issue.impact = None
    /\ issue.estimate = None
    /\ LabelsOf(issue) = <<>>

\* C3: two kept records with identical normalised priority, impact and
\* estimate are written in the order they had in the input; a backlog
\* whose records all use the defaults is written in its original order.
C3_Stable ==
    [][Wrote' =>
        LET inp == fs[call'.source].issues
            out == fs'[call'.target].issues
        IN  /\ \A a \in DOMAIN out : \A b \in DOMAIN out :
                   (a < b /\ SameNormalised(out[a], out[b]))
                       => Pos(inp, out[a]) < Pos(inp, out[b])
            /\ (\A i \in DOMAIN inp : AllDefaults(inp[i]))
                   => out = SubSeq(inp, 1, Len(out))]_vars

\* C3 witness: the ranking moved a record, and kept two records with
\* identical normalised values that were not adjacent in the input
C3_Witness ==
    /\ Wrote
    /\ call.source = InPath
    /\ LET inp == fs[InPath].issues
           out == fs[call.target].issues
       IN  /\ out # SubSeq(inp, 1, Len(out))
           /\ \E a \in DOMAIN out : \E b \in DOMAIN out :
                  /\ a < b
                  /\ SameNormalised(out[a], out[b])
                  /\ Pos(inp, out[b]) > Pos(inp, out[a]) + 1

\* The first label, in label order, that is a string whose lower-cased form
\* starts with the prefix; 0 when there is none
FirstLabel(issue, prefix) ==
    LET labels == LabelsOf(issue)
        hit(k) == IsStr(labels[k]) /\ StartsWith(Lower(labels[k].v), prefix)
    IN  IF \E k \in DOMAIN labels : hit(k)
        THEN CHOOSE k \in DOMAIN labels :
                 hit(k) /\ \A j \in 1..(k - 1) : ~hit(j)
        ELSE 0

\* The normalised value the precedence rules give a field with a label
\* fallback
ByPrecedence(field, issue, prefix, default) ==
    IF IsStr(field) THEN Upper(field.v)
    ELSE IF FirstLabel(issue, prefix) # 0
    THEN Upper(SplitColon1(LabelsOf(issue)[FirstLabel(issue, prefix)].v))
    ELSE default

AllIssues == UNION {Range(fs[p].issues) : p \in Paths}

\* C4: priority and impact are the upper-cased direct string field, else
\* the upper-cased text after the first colon of the first matching label,
\* else P3 / LOW; a direct string outside the enumeration scores as the
\* default whatever the labels say; a record without a priority field whose
\* first priority label is 'priority:P1' scores as P1; estimate is the
\* upper-cased direct string field, else M, whatever the labels say.
C4_Normalisation ==
    \A x \in AllIssues :
        /\ _normalise_priority(x) =
               ByPrecedence(x.priority, x, PriorityPrefix, <<"P","3">>)
        /\ _normalise_impact(x) =
               ByPrecedence(x.impact, x, ImpactPrefix, <<"L","O","W">>)
        /\ _normalise_estimate(x) =
               (IF IsStr(x.estimate) THEN Upper(x.estimate.v) ELSE <<"M">>)
        /\ (IsStr(x.priority)
            /\ Upper(x.priority.v) \notin {<<"P","1">>, <<"P","2">>, <<"P","3">>})
               => priority_score(x) = 1
        /\ (IsStr(x.impact)
            /\ Upper(x.impact.v) \notin
                   {<<"H","I","G","H">>, <<"M","E","D","I","U","M">>, <<"L","O","W">>})
               => impact_score(x) = 1
        /\ (~IsStr(x.priority) /\ FirstLabel(x, PriorityPrefix) # 0
            /\ LabelsOf(x)[FirstLabel(x, PriorityPrefix)].v
                   = PriorityPrefix \o <<"P","1">>)
               => priority_score(x) = 3

\* C4 witness: the ranking put a record whose priority P1 comes from its
\* third label before a record whose direct priority is outside the
\* enumeration although its label says P1
C4_Witness ==
    /\ Wrote
    /\ LET out == fs[call.target].issues
       IN  \E a \in DOMAIN out : \E b \in DOMAIN out :
               /\ a < b
               /\ ~IsStr(out[a].priority)
               /\ FirstLabel(out[a], PriorityPrefix) = 3
               /\ _normalise_priority(out[a]) = <<"P","1">>
               /\ IsStr(out[b].priority)
               /\ FirstLabel(out[b], PriorityPrefix) = 1
               /\ _normalise_priority(out[b]) = <<"U","R","G","E","N","T">>

\* C5: ranking the written output again, with the same limit >= 0,
\* writes the same records in the same order.
C5_Idempotent ==
    [][(Wrote /\ Wrote' /\ call'.source = call.target
        /\ call'.limit = call.limit /\ call.limit >= 0)
           => fs'[call'.target] = fs[call.target]]_vars

\* C5 witness: main ranked in place an output file that holds the ranking
\* of a longer backlog with the same limit
C5_Witness ==
    /\ Wrote
    /\ call.op = "main"
    /\ call.source = OutPath
    /\ call.target = OutPath
    /\ fs[InPath].kind = "ok"
    /\ Len(fs[InPath].issues) > DEFAULT_LIMIT
    /\ fs[InPath].issues # SortedIssues(fs[InPath].issues)
    /\ fs[OutPath].issues
           = SliceTo(SortedIssues(fs[InPath].issues), DEFAULT_LIMIT)

\* C6: on a document that is not a mapping, has no 'issues' key or whose
\* 'issues' is not a list, the invocation ends with SystemExit, no file is
\* created or modified and no success message is printed.
C6_Malformed ==
    [][(call'.source \in Paths
        /\ fs[call'.source].kind \in {"notmapping", "nokey", "notlist"})
           => /\ outcome' = "SystemExit"
              /\ stderr' # ""
              /\ fs' = fs
              /\ stdout' = ""]_vars

\* C6 witness: main ended with SystemExit and left an older output file as
\* it was
C6_Witness ==
    /\ call.op = "main"
    /\ outcome = "SystemExit"
    /\ fs[InPath].kind = "nokey"
    /\ fs[call.target] = StaleDoc

\* C8 as stated: main given a limit argument after the two paths accepts it
\* and truncates to that limit.
C8_LimitArgumentAccepted ==
    (call.op = "main" /\ Len(call.argv) = 4 /\ fs[call.argv[2]].kind = "ok")
        => /\ outcome = "return 0"
           /\ Len(fs[call.argv[3]].issues) <= 2

\* C8 amended: main takes exactly the two paths and then ranks with limit
\* 10; with a further limit argument, or with fewer arguments, it prints
\* the usage line, returns 1 and writes nothing.
C8_TwoPathsOnly ==
    [][call'.op = "main" =>
        /\ (Len(call'.argv) = 3 /\ fs[call'.argv[2]].kind = "ok")
               => /\ outcome' = "return 0"
                  /\ stdout' # ""
                  /\ call'.limit = 10
                  /\ Len(fs'[call'.argv[3]].issues)
                         = Min(10, Len(fs[call'.argv[2]].issues))
        /\ Len(call'.argv) # 3
               => /\ outcome' = "return 1"
                  /\ stdout' = ""
                  /\ stderr' # ""
                  /\ fs' = fs]_vars

\* C8 witness: main, given the two paths, kept 10 records of a longer
\* backlog
C8_Witness ==
    /\ call.op = "main"
    /\ call.argv = <<Prog, InPath, OutPath>>
    /\ outcome = "return 0"
    /\ Len(fs[InPath].issues) > 10
    /\ Len(fs[OutPath].issues) = 10

\* C9 as stated: select_top_issues with a negative limit never writes a
\* non-empty list.
C9_NegativeLimitEmpty ==
    (Wrote /\ call.limit < 0) => fs[call.target].issues = <<>>

(***************************************************************************)
(* Properties of gh_pr_automation.                                         *)
(***************************************************************************)
StepOrder == <<"resolve_base", "create_ref", "create_tree", "create_commit",
               "update_ref", "create_pr", "find_issue", "get_issue",
               "patch_issue", "comment_issue", "request_review">>

StepNo(req) == CHOOSE m \in DOMAIN StepOrder : StepOrder[m] = req

\* Steps 1 to 6 are the mandatory ones
Mandatory(req) == StepNo(req) <= 6

\* The success status of a mandatory step
Succeeded(e) ==
    CASE e.req = "resolve_base" -> e.code = 200
      [] e.req \in {"create_ref", "create_tree", "create_commit"}
             -> e.code \in {200, 201}
      [] e.req = "update_ref" -> e.code = 200
      [] e.req = "create_pr" -> e.code = 201
      [] OTHER -> TRUE

\* The one failure main passes on
Tolerated(e) == e.req = "create_ref" /\ e.body = RefExists

\* C7 as stated: when the base ref resolves with 200, create-ref, create-tree
\* and create-commit answer 200 or 201 and the ref update answers 200, each
\* with the document of its endpoint, main has issued the create-pull-request
\* request by the time the run ends.
C7_GoesOnToCreatePR ==
    (/\ gpc = "exited"
     /\ Len(log) >= 5
     /\ \A k \in 1..5 : Succeeded(log[k]) /\ log[k].body = "json")
        => \E k \in DOMAIN log : log[k].req = "create_pr"

\* C10: the requests are issued in the order of the steps; a request is
\* issued only after every earlier mandatory step was requested and got its
\* success status or, for create-ref, 'Reference already exists'; a
\* mandatory step that fails otherwise is the last request and the run ends
\* with exit code 1; the issue is patched or commented on only after the
\* pull request was created with 201.
C10_FailStop ==
    /\ \A k \in DOMAIN log : \A j \in 1..(k - 1) :
           StepNo(log[j].req) < StepNo(log[k].req)
    /\ \A k \in DOMAIN log : \A m \in 1..6 :
           m < StepNo(log[k].req)
               => \E j \in 1..(k - 1) :
                      /\ log[j].req = StepOrder[m]
                      /\ Succeeded(log[j]) \/ Tolerated(log[j])
    /\ \A k \in DOMAIN log :
           (Mandatory(log[k].req) /\ ~Succeeded(log[k]) /\ ~Tolerated(log[k]))
               => k = Len(log) /\ gpc = "exited" /\ exitCode = 1
    /\ \A k \in DOMAIN log :
           log[k].req \in {"patch_issue", "comment_issue"}
               => \E j \in 1..(k - 1) :
                      log[j].req = "create_pr" /\ log[j].code = 201

\* C10 witness: create-ref answered 422 'Reference already exists', the
\* tree was created, and the failed create-commit ended the run
C10_Witness ==
    /\ Len(log) = 4
    /\ log[2].code = 422
    /\ log[2].body = RefExists
    /\ log[3].code = 201
    /\ log[4].req = "create_commit"
    /\ log[4].code = 404
    /\ gpc = "exited"
    /\ exitCode = 1

====
